---------------------------- MODULE Spec2Model ----------------------------
(***************************************************************************)
(* A model of shiumachi/pdf2text: the cleansing pipeline of pdf2text.py    *)
(* (clean_pdf_text and its stages), its header/footer detector             *)
(* (detect_headers_footers) and the sentence packer of text2pdf.py         *)
(* (split_text_into_chunks).                                               *)
(*                                                                         *)
(* A text is a sequence of characters.  A character is a string: an ASCII  *)
(* character stands for itself, any other character has a name (LF, KAN1,  *)
(* BUL, ...).  The regular expressions of the source are transcribed as    *)
(* syntax trees and matched by a backtracking matcher with the priorities  *)
(* of Python's re module (leftmost match, greedy repetition, alternatives  *)
(* left to right).                                                         *)
(***************************************************************************)
EXTENDS Integers, Sequences, FiniteSets, TLC

(***************************************************************************)
(* The alphabet                                                            *)
(***************************************************************************)
LowerSeq ==
  << "a", "b", "c", "d", "e", "f", "g", "h", "i", "j", "k", "l", "m",
     "n", "o", "p", "q", "r", "s", "t", "u", "v", "w", "x", "y", "z" >>

UpperSeq ==
  << "A", "B", "C", "D", "E", "F", "G", "H", "I", "J", "K", "L", "M",
     "N", "O", "P", "Q", "R", "S", "T", "U", "V", "W", "X", "Y", "Z" >>

Range(q) == { q[k] : k \in 1..Len(q) }

LowerChars == Range(LowerSeq)
UpperChars == Range(UpperSeq)
AsciiDigits == { "0", "1", "2", "3", "4", "5", "6", "7", "8", "9" }

\* U+FF11 FULLWIDTH DIGIT ONE, U+FF21 FULLWIDTH LATIN CAPITAL LETTER A,
\* U+FF01 FULLWIDTH EXCLAMATION MARK, U+FF1F FULLWIDTH QUESTION MARK,
\* U+FF08 and U+FF09 FULLWIDTH PARENTHESES
FullwidthChars == { "FW1", "FWA", "FWEX", "FWQ", "FWLP", "FWRP" }

\* U+6F22, U+5B57 (kanji), U+3042 (hiragana), U+30A2 (katakana)
CjkChars == { "KAN1", "KAN2", "HIRA", "KATA" }

\* U+3002 IDEOGRAPHIC FULL STOP, U+3001 IDEOGRAPHIC COMMA, U+300C/D/E/F and
\* U+3010/1 brackets: all in the block U+3000-U+303F
CjkPunctChars == { "KUTEN", "TOUTEN", "LBRK", "RBRK", "LDBRK", "RDBRK", "LLENT", "RLENT" }

\* U+2022, U+25E6, U+29BF, U+2981, U+26AB, U+25CB
BulletChars == { "BUL", "WBUL", "CBUL", "ZBUL", "MBUL", "CIRC" }

\* LF, CR, TAB are C0 controls; NEL is U+0085; IDSP is U+3000 IDEOGRAPHIC SPACE
C0Space == { "LF", "CR", "TAB" }
SpaceChars == { " ", "IDSP", "NEL" } \cup C0Space

\* the characters of the control class of remove_pdf_artifacts: the C0 controls
\* (LF, CR and TAB among them), NUL, DEL, SHY (U+00AD), ZWSP (U+200B), BOM
ControlChars == C0Space \cup { "NUL", "DEL", "SHY", "ZWSP", "BOM" }

\* U+2502 BOX DRAWINGS LIGHT VERTICAL, U+253C ... LIGHT VERTICAL AND HORIZONTAL
BoxChars == { "BOX", "BOXX" }

\* the ASCII punctuation of ALLOWED_CHARS_PATTERN
AsciiPunct ==
  { ".", ",", "!", "?", ":", ";", "APOS", "QUOT", "(", ")", "[", "]", "{", "}",
    "<", ">", "BTICK", "+", "-", "*", "/", "=", "BSL", "%", "&", "|", "#", "@", "~" }

\* U+30FB KATAKANA MIDDLE DOT: in the katakana block, and no word character
MidDot == { "NAKA" }

\* the class [\u3040-\u309F\u30A0-\u30FF\u4E00-\u9FFF]
JaChars == CjkChars \cup MidDot

\* allowed by no pattern: "_", "$", "^", U+20AC EURO SIGN, U+00BD VULGAR
\* FRACTION ONE HALF, U+2044 FRACTION SLASH, U+2026 HORIZONTAL ELLIPSIS
OtherChars == { "_", "$", "^", "EUR", "HALF", "FRSL", "ELL" }

Chars ==
  LowerChars \cup UpperChars \cup AsciiDigits \cup FullwidthChars \cup CjkChars
  \cup CjkPunctChars \cup BulletChars \cup SpaceChars \cup ControlChars
  \cup BoxChars \cup AsciiPunct \cup MidDot \cup OtherChars

\* \w : letters, digits (the full-width ones too), underscore, kana and kanji;
\* U+00BD is numeric, hence alphanumeric
WordChars ==
  LowerChars \cup UpperChars \cup AsciiDigits \cup { "FW1", "FWA", "_", "HALF" }
  \cup CjkChars

\* \d and str.isdigit : the decimal digits, the full-width ones too
DigitChars == AsciiDigits \cup { "FW1" }

\* the length of a character's UTF-8 encoding
Utf8Len(c) ==
  IF c \in LowerChars \cup UpperChars \cup AsciiDigits \cup AsciiPunct
          \cup { " ", "_", "$", "^", "LF", "CR", "TAB", "NUL", "DEL" }
    THEN 1
    ELSE IF c \in { "NEL", "SHY", "HALF" } THEN 2 ELSE 3

(***************************************************************************)
(* Regular expressions: syntax trees and Python's backtracking matcher     *)
(***************************************************************************)
Set(S) == [op |-> "set", set |-> S]
Cat(a, b) == [op |-> "cat", a |-> a, b |-> b]
Alt(a, b) == [op |-> "alt", a |-> a, b |-> b]
Opt(a) == [op |-> "opt", a |-> a]
Star(a) == [op |-> "star", a |-> a]
Plus(a) == Cat(a, Star(a))
Bol == [op |-> "bol"]        \* ^ under re.MULTILINE
Eol == [op |-> "eol"]        \* $ under re.MULTILINE
Wb == [op |-> "wb"]          \* \b

RECURSIVE CatAll(_)
CatAll(q) == IF Len(q) = 1 THEN q[1] ELSE Cat(q[1], CatAll(Tail(q)))

RECURSIVE AltAll(_)
AltAll(q) == IF Len(q) = 1 THEN q[1] ELSE Alt(q[1], AltAll(Tail(q)))

Index(q, c) == CHOOSE k \in 1..Len(q) : q[k] = c

\* both cases of a letter (re.IGNORECASE); any other character alone
BothCases(c) ==
  IF c \in LowerChars THEN { c, UpperSeq[Index(LowerSeq, c)] }
  ELSE IF c \in UpperChars THEN { c, LowerSeq[Index(UpperSeq, c)] }
  ELSE { c }

\* a literal text, as re.escape gives it
Lit(w) == CatAll([k \in 1..Len(w) |-> Set({ w[k] })])

\* a literal text under re.IGNORECASE
LitI(w) == CatAll([k \in 1..Len(w) |-> Set(BothCases(w[k]))])

AddNew(acc, e) ==
  IF \E k \in 1..Len(acc) : acc[k] = e THEN acc ELSE Append(acc, e)

RECURSIVE AppendAll(_, _)
AppendAll(acc, q) ==
  IF q = <<>> THEN acc ELSE AppendAll(AddNew(acc, Head(q)), Tail(q))

IsWordAt(s, k) == k >= 1 /\ k <= Len(s) /\ s[k] \in WordChars

\* Ends(r, s, i): the offsets at which a match of r that starts at offset i
\* of s can end, in the order in which the backtracking matcher tries them
\* (an offset tried before is not tried again: what follows it failed).
RECURSIVE Ends(_, _, _)
RECURSIVE ThenEnds(_, _, _, _)
ThenEnds(r, s, from, acc) ==
  IF from = <<>> THEN acc
  ELSE ThenEnds(r, s, Tail(from), AppendAll(acc, Ends(r, s, Head(from))))

Ends(r, s, i) ==
  CASE r.op = "set" ->
         IF i < Len(s) /\ s[i + 1] \in r.set THEN << i + 1 >> ELSE <<>>
    [] r.op = "cat" -> ThenEnds(r.b, s, Ends(r.a, s, i), <<>>)
    [] r.op = "alt" -> AppendAll(Ends(r.a, s, i), Ends(r.b, s, i))
    [] r.op = "opt" -> AppendAll(Ends(r.a, s, i), << i >>)
    [] r.op = "star" ->
         AppendAll(
           ThenEnds(r, s, SelectSeq(Ends(r.a, s, i), LAMBDA e : e > i), <<>>),
           << i >>)
    [] r.op = "bol" -> IF i = 0 \/ s[i] = "LF" THEN << i >> ELSE <<>>
    [] r.op = "eol" ->
         IF i = Len(s) \/ s[i + 1] = "LF" THEN << i >> ELSE <<>>
    [] r.op = "wb" ->
         IF IsWordAt(s, i) # IsWordAt(s, i + 1) THEN << i >> ELSE <<>>

\* what replaces a match m
Delete == [kind |-> "const", val |-> <<>>]
Const(v) == [kind |-> "const", val |-> v]
First == [kind |-> "first"]          \* \1, the group being the first character
Last == [kind |-> "last"]            \* \1, the group being the last character
FirstLast == [kind |-> "firstlast"]  \* \1\2, the groups being first and last

Replacement(repl, m) ==
  CASE repl.kind = "const" -> repl.val
    [] repl.kind = "first" -> << m[1] >>
    [] repl.kind = "last" -> << m[Len(m)] >>
    [] repl.kind = "firstlast" -> << m[1], m[Len(m)] >>

\* re.sub(r, repl, s) for a pattern that matches no empty text: the leftmost
\* match, replaced, then on from its end. ends[k] is where the match that
\* starts at offset k - 1 ends, 0 if there is none (concatenated with the
\* empty sequence, so that it is computed once, as a sequence).
MatchEnds(r, s) ==
  [k \in 1..Len(s) |->
     LET es == Ends(r, s, k - 1)
     IN  IF es # <<>> /\ Head(es) > k - 1 THEN Head(es) ELSE 0] \o <<>>

\* the offset of the leftmost match that starts at offset i or later
NextStart(ends, i) ==
  CHOOSE k \in i..(Len(ends) - 1) :
    ends[k + 1] > 0 /\ \A m \in i..(k - 1) : ends[m + 1] = 0

RECURSIVE SubFrom(_, _, _, _)
SubFrom(ends, repl, s, i) ==
  IF \A k \in i..(Len(s) - 1) : ends[k + 1] = 0 THEN SubSeq(s, i + 1, Len(s))
  ELSE SubSeq(s, i + 1, NextStart(ends, i))
         \o Replacement(repl, SubSeq(s, NextStart(ends, i) + 1, ends[NextStart(ends, i) + 1]))
         \o SubFrom(ends, repl, s, ends[NextStart(ends, i) + 1])

ReSub(r, repl, s) ==
  IF s = <<>> THEN <<>> ELSE SubFrom(MatchEnds(r, s), repl, s, 0)

\* the sequences of a sequence, concatenated (by halves)
RECURSIVE Flatten(_)
Flatten(cs) ==
  IF cs = <<>> THEN <<>>
  ELSE IF Len(cs) = 1 THEN cs[1]
  ELSE LET h == Len(cs) \div 2
       IN  Flatten(SubSeq(cs, 1, h)) \o Flatten(SubSeq(cs, h + 1, Len(cs)))

\* str.replace(c, v) for a single character c
Replace(s, c, v) ==
  Flatten([k \in 1..Len(s) |-> IF s[k] = c THEN v ELSE << s[k] >>])

\* str.strip()
RECURSIVE LStrip(_)
LStrip(s) ==
  IF s # <<>> /\ Head(s) \in SpaceChars THEN LStrip(Tail(s)) ELSE s

RECURSIVE RStrip(_)
RStrip(s) ==
  IF s # <<>> /\ s[Len(s)] \in SpaceChars
    THEN RStrip(SubSeq(s, 1, Len(s) - 1)) ELSE s

Strip(s) == RStrip(LStrip(s))

\* str.isspace(): non-empty and all whitespace
IsSpace(s) == s # <<>> /\ \A k \in 1..Len(s) : s[k] \in SpaceChars

(***************************************************************************)
(* pdf2text.py: the stages of the cleansing pipeline                       *)
(***************************************************************************)
S == Set(SpaceChars)         \* \s
D == Set(DigitChars)         \* \d
W == Set(WordChars)          \* \w
Ja == Set(JaChars)


\* unicodedata.normalize("NFKC", .) on one character of the alphabet (the
\* alphabet has no combining mark, so no two characters compose)
NfkcChar(c) ==
  CASE c = "FW1" -> << "1" >>
    [] c = "FWA" -> << "A" >>
    [] c = "FWEX" -> << "!" >>
    [] c = "FWQ" -> << "?" >>
    [] c = "FWLP" -> << "(" >>
    [] c = "FWRP" -> << ")" >>
    [] c = "IDSP" -> << " " >>
    [] c = "HALF" -> << "1", "FRSL", "2" >>
    [] c = "ELL" -> << ".", ".", "." >>
    [] OTHER -> << c >>

NFKC(s) == Flatten([k \in 1..Len(s) |-> NfkcChar(s[k])])

\* the entries of OCR_REPLACEMENTS whose key is in the alphabet
OCR_REPLACEMENTS(c) ==
  CASE c = "FW1" -> "1"
    [] c = "FWA" -> "A"
    [] c = "FWEX" -> "!"
    [] c = "FWQ" -> "?"
    [] c = "FWLP" -> "("
    [] c = "FWRP" -> ")"
    [] c = "IDSP" -> " "
    [] OTHER -> c

apply_ocr_fixes(text) == [k \in 1..Len(text) |-> OCR_REPLACEMENTS(text[k])]

AllowedChars ==
  LowerChars \cup UpperChars \cup AsciiDigits \cup JaChars \cup CjkPunctChars
  \cup SpaceChars \cup AsciiPunct

ALLOWED_CHARS_PATTERN == Plus(Set(Chars \ AllowedChars))

Digits13 == Cat(D, Opt(Cat(D, Opt(D))))     \* \d{1,3}

PDF_ARTIFACT_PATTERNS ==
  << CatAll(<< Wb,
               AltAll(<< LitI(<< "c", "o", "n", "f", "i", "d", "e", "n", "t", "i", "a", "l" >>),
                         LitI(<< "d", "r", "a", "f", "t" >>),
                         LitI(<< "d", "o", " ", "n", "o", "t", " ", "c", "o", "p", "y" >>),
                         LitI(<< "s", "a", "m", "p", "l", "e" >>),
                         LitI(<< "w", "a", "t", "e", "r", "m", "a", "r", "k" >>) >>),
               Wb >>),
     CatAll(<< Wb, LitI(<< "p", "a", "g", "e" >>), Plus(S), Plus(D),
               Opt(CatAll(<< Plus(S), LitI(<< "o", "f" >>), Plus(S), Plus(D) >>)),
               Wb >>),
     CatAll(<< Bol, Star(S), Star(Set({ "-", "_" })), Star(S), Plus(D), Star(S),
               Star(Set({ "-", "_" })), Star(S), Eol >>),
     CatAll(<< Digits13, Star(S), Set({ "/" }), Star(S), Digits13 >>) >>

TABLE_BORDER_PATTERN == Set(BoxChars)

RECURSIVE SubAll(_, _)
SubAll(patterns, text) ==
  IF patterns = <<>> THEN text
  ELSE SubAll(Tail(patterns), ReSub(Head(patterns), Delete, text))

remove_pdf_artifacts(text) ==
  LET t1 == ReSub(Set(ControlChars), Delete, text)
      t2 == SubAll(PDF_ARTIFACT_PATTERNS, t1)
  IN  ReSub(TABLE_BORDER_PATTERN, Const(<< " " >>), t2)

fix_hyphenation(text) ==
  LET t1 == ReSub(CatAll(<< W, Set({ "-" }), Plus(Set({ "LF", "CR" })), W >>),
                  FirstLast, text)
  IN  ReSub(CatAll(<< Ja, Plus(S), Ja >>), FirstLast, t1)

ClosingPunct ==
  { ".", ",", "!", "?", ":", ";", "TOUTEN", "KUTEN", "RDBRK", "RLENT", "FWRP", ")", "]" }

OpeningBrackets == { "LBRK", "LDBRK", "FWLP", "(", "[", "LLENT" }

RepeatablePunct == << ".", ",", "!", "?", ":", ";", "TOUTEN", "KUTEN" >>

\* ([.,!?:;...])\1+ : one of the marks, then the same mark again, once or more
RepeatedPunct ==
  AltAll([k \in 1..Len(RepeatablePunct) |->
            Cat(Set({ RepeatablePunct[k] }), Plus(Set({ RepeatablePunct[k] })))])

normalize_whitespace_and_punctuation(text) ==
  LET t1 == ReSub(Plus(S), Const(<< " " >>), text)
      t2 == ReSub(Cat(Set(BulletChars), Star(S)), Const(<< "BUL", " " >>), t1)
      t3 == ReSub(CatAll(<< Bol, Star(S), Set({ "BUL" }) >>), Const(<< "BUL" >>), t2)
      t4 == ReSub(Cat(Plus(S), Set(ClosingPunct)), Last, t3)
      t5 == ReSub(Cat(Set(OpeningBrackets), Plus(S)), First, t4)
      t6 == ReSub(CatAll(<< Ja, Plus(S), Ja >>), FirstLast, t5)
      t7 == ReSub(RepeatedPunct, First, t6)
  IN  Strip(t7)

\* step 4 of clean_pdf_text; no header or footer is the empty text
RemoveHeader(text, remove_header) ==
  IF remove_header # <<>>
    THEN ReSub(CatAll(<< Bol, Star(S), Lit(remove_header), Star(S),
                         Plus(Set({ "CR", "LF" })) >>), Delete, text)
    ELSE text

RemoveFooter(text, remove_footer) ==
  IF remove_footer # <<>>
    THEN ReSub(CatAll(<< Plus(Set({ "CR", "LF" })), Star(S), Lit(remove_footer),
                         Star(S), Eol >>), Delete, text)
    ELSE text

\* step 6 of clean_pdf_text
FlattenLineBreaks(text) == Replace(Replace(text, "LF", << " " >>), "CR", <<>>)

\* RemoveDisallowed, were the restriction to the allowed characters left out
RemoveDisallowedSkipped(text) == text

\* step 7 of clean_pdf_text
RemoveDisallowed(text) == ReSub(ALLOWED_CHARS_PATTERN, Delete, text)

clean_pdf_text(text, remove_header, remove_footer) ==
  IF Strip(text) = <<>> THEN <<>>
  ELSE LET t1 == NFKC(text)
           t2 == apply_ocr_fixes(t1)
           t3 == remove_pdf_artifacts(t2)
           t4 == RemoveFooter(RemoveHeader(t3, remove_header), remove_footer)
           t5 == fix_hyphenation(t4)
           t6 == FlattenLineBreaks(t5)
           t7 == RemoveDisallowed(t6)
           t8 == normalize_whitespace_and_punctuation(t7)
       IN  IF IsSpace(t8) THEN <<>> ELSE t8

(***************************************************************************)
(* pdf2text.py: the header/footer detector and the processing of a file    *)
(***************************************************************************)
\* no header, no footer (None); a detected one is never empty
None == <<>>

\* str.split(c) for a single character c
RECURSIVE SplitOn(_, _)
SplitOn(s, c) ==
  IF \A k \in 1..Len(s) : s[k] # c THEN << s >>
  ELSE LET k == CHOOSE j \in 1..Len(s) : s[j] = c /\ \A m \in 1..(j - 1) : s[m] # c
       IN  << SubSeq(s, 1, k - 1) >> \o SplitOn(SubSeq(s, k + 1, Len(s)), c)

\* [line.strip() for line in text.split("\n") if line.strip()]
StrippedLines(text) ==
  LET parts == SplitOn(text, "LF")
  IN  SelectSeq([k \in 1..Len(parts) |-> Strip(parts[k])], LAMBDA l : l # <<>>)

Count(q, x) == Cardinality({ k \in 1..Len(q) : q[k] = x })

\* Counter(q).most_common(1)[0] for a non-empty q: the element counted most
\* often and, among those, the first met; with its count
MostCommon(q) ==
  LET k == CHOOSE j \in 1..Len(q) :
             /\ \A m \in 1..Len(q) : Count(q, q[m]) <= Count(q, q[j])
             /\ \A m \in 1..(j - 1) : Count(q, q[m]) < Count(q, q[j])
  IN  << q[k], Count(q, q[k]) >>

\* str.isdigit()
IsDigit(s) == s # <<>> /\ \A k \in 1..Len(s) : s[k] \in DigitChars

MinPages == 3
MinHeaderFooterLength == 5

\* AtLeastThreshold, were the comparison strict
AboveThreshold(count, total_pages, threshold) ==
  count * threshold[2] > threshold[1] * total_pages

\* count / total_pages >= threshold, the threshold being the fraction
\* threshold[1] / threshold[2]
AtLeastThreshold(count, total_pages, threshold) ==
  count * threshold[2] >= threshold[1] * total_pages

\* a page is its text: the page number of a (number, text) pair is not used
detect_headers_footers(pages_text, threshold) ==
  IF Len(pages_text) < MinPages THEN << None, None >>
  ELSE
    LET all_lines == [k \in 1..Len(pages_text) |-> StrippedLines(pages_text[k])]
        with_lines == SelectSeq(all_lines, LAMBDA lines : lines # <<>>)
        first_lines == [k \in 1..Len(with_lines) |-> with_lines[k][1]]
        last_lines == [k \in 1..Len(with_lines) |-> with_lines[k][Len(with_lines[k])]]
    IN  IF first_lines = <<>> THEN << None, None >>
        ELSE
          LET header_candidate == MostCommon(first_lines)
              footer_candidate == MostCommon(last_lines)
              total_pages == Len(pages_text)
              Accept(candidate) ==
                IF AtLeastThreshold(candidate[2], total_pages, threshold)
                  THEN candidate[1] ELSE None
              Filter(line) ==
                IF line # None /\ (Len(line) < MinHeaderFooterLength \/ IsDigit(line))
                  THEN None ELSE line
          IN  << Filter(Accept(header_candidate)), Filter(Accept(footer_candidate)) >>

\* "\n\n".join(pages)
RECURSIVE JoinPages(_)
JoinPages(ps) ==
  IF ps = <<>> THEN <<>>
  ELSE IF Len(ps) = 1 THEN ps[1]
  ELSE ps[1] \o << "LF", "LF" >> \o JoinPages(Tail(ps))

\* the default of detect_headers_footers' threshold, 0.7
DefaultThreshold == << 7, 10 >>

(***************************************************************************)
(* text2pdf.py: the sentence packer                                        *)
(***************************************************************************)
ChunkAllowedChars ==
  LowerChars \cup UpperChars \cup AsciiDigits \cup JaChars \cup CjkPunctChars
  \cup SpaceChars
  \cup { ".", ",", "!", "?", ":", ";", "APOS", "QUOT", "(", ")", "[", "]", "{", "}" }

clean_text(text) ==
  LET t1 == ReSub(Set(Chars \ ChunkAllowedChars), Delete, text)
      t2 == Strip(ReSub(Plus(S), Const(<< " " >>), t1))
      t3 == ReSub(Cat(Plus(S), Set(Chars \ (WordChars \cup SpaceChars))), Last, t2)
      t4 == ReSub(CatAll(<< W, Plus(S), W >>), FirstLast, t3)
  IN  NFKC(t4)

\* the sentence-final marks of the split: U+3002, U+FF01, U+FF1F
SentenceEnd == { "KUTEN", "FWEX", "FWQ" }

\* re.split(r"(?<=[...])", page): a cut after every sentence-final mark, the
\* last piece being what follows the last mark (empty when nothing does)
RECURSIVE SplitFrom(_, _)
SplitFrom(page, piece) ==
  IF page = <<>> THEN << piece >>
  ELSE IF Head(page) \in SentenceEnd
    THEN << Append(piece, Head(page)) >> \o SplitFrom(Tail(page), <<>>)
    ELSE SplitFrom(Tail(page), Append(piece, Head(page)))

SplitSentences(page) == SplitFrom(page, <<>>)

\* len(text.encode("utf-8"))
RECURSIVE ByteLen(_)
ByteLen(s) == IF s = <<>> THEN 0 ELSE Utf8Len(Head(s)) + ByteLen(Tail(s))

(***************************************************************************)
(* The state                                                               *)
(***************************************************************************)
VARIABLES
  pc,               \* where the call in progress stands
  text,             \* clean_pdf_text: its arguments ...
  remove_header,
  remove_footer,
  cleaned_text,     \* ... its result ...
  recleaned_text,   \* ... and its result on its own result
  pages_text,       \* detect_headers_footers: the pages ...
  threshold,        \* ... the threshold, a fraction << numerator, denominator >> ...
  header,           \* ... and the result
  footer,
  pages,            \* split_text_into_chunks: its arguments ...
  max_size,
  page_no,          \* ... the number of pages the outer loop has taken ...
  sentences,        \* ... what the inner loop has yet to take of that page ...
  cleaned_sentence, \* ... and its locals and result
  current_chunk,
  chunks

cleanVars == << text, remove_header, remove_footer, cleaned_text, recleaned_text >>
detectVars == << pages_text, threshold, header, footer >>
packVars ==
  << pages, max_size, page_no, sentences, cleaned_sentence, current_chunk, chunks >>
vars == << pc, cleanVars, detectVars, packVars >>

(***************************************************************************)
(* The inputs                                                              *)
(***************************************************************************)
MaxFragments == 3
MaxPages == 4
MaxPackPages == 2
MaxSize == 6

\* the pieces the texts given to clean_pdf_text are made of: a Latin letter, a
\* digit, a space, the line breaks, a hyphen at the end of a line, a kanji, a
\* bullet, a character outside every allowed class, a pagination token
Fragments ==
  { << "a" >>, << "1" >>, << " " >>, << "LF" >>, << "CR" >>, << "-", "LF" >>,
    << "KAN1" >>, << "WBUL" >>, << "EUR" >>, << "1", "/", "2" >> }

RECURSIVE TextsOf(_)
TextsOf(n) ==
  IF n = 0 THEN { <<>> }
  ELSE LET shorter == TextsOf(n - 1)
       IN  shorter \cup { t \o f : t \in shorter, f \in Fragments }

\* the (remove_header, remove_footer) arguments
HeaderFooterArgs == { << None, None >>, << << "a" >>, None >>, << None, << "1" >> >> }

\* the pages of a document: a header line and a body, the same with trailing
\* blank lines, another first line and a last line long enough for a footer,
\* an empty page, a numeric first line, a short first line
PageSamples ==
  { << "H", "E", "A", "D", "R", "LF", "x" >>,
    << "H", "E", "A", "D", "R", "LF", "y", "LF", " " >>,
    << " ", "O", "T", "H", "E", "R", "LF", "F", "O", "O", "T", "R" >>,
    <<>>,
    << "1", "2", "3", "4", "5", "LF", "F", "O", "O", "T", "R" >>,
    << "a", "b", "LF", "x" >> }

Thresholds == { << 1, 2 >>, DefaultThreshold, << 1, 1 >> }

RECURSIVE SeqsOf(_, _)
SeqsOf(X, n) ==
  IF n = 0 THEN { <<>> }
  ELSE LET shorter == SeqsOf(X, n - 1)
       IN  shorter \cup { Append(q, x) : q \in shorter, x \in X }

\* the pages given to split_text_into_chunks: one sentence, two sentences, a
\* sentence with a space and a mark that cleaning deletes, an empty page, a
\* character that cleaning deletes, nothing but such a mark
PackSamples ==
  { << "a", "KUTEN" >>,
    << "HIRA", "KUTEN", "b" >>,
    << "a", " ", "b", "FWEX", "c" >>,
    <<>>,
    << "EUR", "KUTEN", "KAN1", "KAN2", "FWQ" >>,
    << "FWEX" >> }

CleanIdle ==
  /\ text = <<>> /\ remove_header = None /\ remove_footer = None
  /\ cleaned_text = <<>> /\ recleaned_text = <<>>

DetectIdle ==
  /\ pages_text = <<>> /\ threshold = DefaultThreshold
  /\ header = None /\ footer = None

PackIdle ==
  /\ pages = <<>> /\ max_size = 0 /\ page_no = 0 /\ sentences = <<>>
  /\ cleaned_sentence = <<>> /\ current_chunk = <<>> /\ chunks = <<>>

(***************************************************************************)
(* clean_pdf_text, called on a text, then on its own result                *)
(***************************************************************************)
Init ==
  /\ pc = "start"
  /\ text \in TextsOf(MaxFragments)
  /\ \E a \in HeaderFooterArgs : remove_header = a[1] /\ remove_footer = a[2]
  /\ cleaned_text = <<>> /\ recleaned_text = <<>>
  /\ DetectIdle /\ PackIdle

CleanPdfText ==
  /\ pc = "start"
  /\ cleaned_text' = clean_pdf_text(text, remove_header, remove_footer)
  /\ pc' = "cleaned"
  /\ UNCHANGED << text, remove_header, remove_footer, recleaned_text >>
  /\ UNCHANGED << detectVars, packVars >>

CleanAgain ==
  /\ pc = "cleaned"
  /\ recleaned_text' = clean_pdf_text(cleaned_text, remove_header, remove_footer)
  /\ pc' = "recleaned"
  /\ UNCHANGED << text, remove_header, remove_footer, cleaned_text >>
  /\ UNCHANGED << detectVars, packVars >>

Next == CleanPdfText \/ CleanAgain

Spec == Init /\ [][Next]_vars

(***************************************************************************)
(* detect_headers_footers, called on the pages of a document               *)
(***************************************************************************)
InitDetect ==
  /\ pc = "start"
  /\ pages_text \in SeqsOf(PageSamples, MaxPages)
  /\ threshold \in Thresholds
  /\ header = None /\ footer = None
  /\ CleanIdle /\ PackIdle

DetectHeadersFooters ==
  /\ pc = "start"
  /\ LET found == detect_headers_footers(pages_text, threshold)
     IN  header' = found[1] /\ footer' = found[2]
  /\ pc' = "detected"
  /\ UNCHANGED << pages_text, threshold, cleanVars, packVars >>

NextDetect == DetectHeadersFooters

SpecDetect == InitDetect /\ [][NextDetect]_vars

(***************************************************************************)
(* process_pdf_file: detection with the default threshold, the pages       *)
(* joined, the whole cleansed (no page gives an empty file, which is what  *)
(* cleansing the empty text gives)                                         *)
(***************************************************************************)
InitDoc ==
  /\ pc = "start"
  /\ pages_text \in SeqsOf(PageSamples, MaxPages)
  /\ threshold = DefaultThreshold
  /\ header = None /\ footer = None
  /\ CleanIdle /\ PackIdle

ProcessPdfFile ==
  /\ pc = "start"
  /\ LET found == detect_headers_footers(pages_text, DefaultThreshold)
         full_text == JoinPages(pages_text)
     IN  /\ header' = found[1] /\ footer' = found[2]
         /\ text' = full_text
         /\ remove_header' = found[1] /\ remove_footer' = found[2]
         /\ cleaned_text' = clean_pdf_text(full_text, found[1], found[2])
  /\ pc' = "cleaned"
  /\ UNCHANGED << pages_text, threshold, recleaned_text, packVars >>

NextDoc == ProcessPdfFile

SpecDoc == InitDoc /\ [][NextDoc]_vars

(***************************************************************************)
(* split_text_into_chunks, one step of its loops at a time                 *)
(***************************************************************************)
InitPack ==
  /\ pc = "page"
  /\ pages \in SeqsOf(PackSamples, MaxPackPages)
  /\ max_size \in 1..MaxSize
  /\ page_no = 0 /\ sentences = <<>>
  /\ cleaned_sentence = <<>> /\ current_chunk = <<>> /\ chunks = <<>>
  /\ CleanIdle /\ DetectIdle

\* for page in pages: sentences = re.split(...)
NextPage ==
  /\ pc = "page" /\ page_no < Len(pages)
  /\ page_no' = page_no + 1
  /\ sentences' = SplitSentences(pages[page_no + 1])
  /\ pc' = "sentence"
  /\ UNCHANGED << pages, max_size, cleaned_sentence, current_chunk, chunks >>
  /\ UNCHANGED << cleanVars, detectVars >>

\* for sentence in sentences: if sentence: ... (an empty one is passed over)
SkipSentence ==
  /\ pc = "sentence" /\ sentences # <<>> /\ Head(sentences) = <<>>
  /\ sentences' = Tail(sentences)
  /\ UNCHANGED << pc, pages, max_size, page_no, cleaned_sentence, current_chunk, chunks >>
  /\ UNCHANGED << cleanVars, detectVars >>

\* Fits, were the bytes of the current chunk forgotten
FitsAlone(chunk, sentence, size) == ByteLen(sentence) <= size

Fits(chunk, sentence, size) == ByteLen(chunk) + ByteLen(sentence) <= size

AppendSentence ==
  /\ pc = "sentence" /\ sentences # <<>> /\ Head(sentences) # <<>>
  /\ LET cleaned == clean_text(Head(sentences))
     IN  /\ Fits(current_chunk, cleaned, max_size)
         /\ cleaned_sentence' = cleaned
         /\ current_chunk' = current_chunk \o cleaned
  /\ sentences' = Tail(sentences)
  /\ UNCHANGED << pc, pages, max_size, page_no, chunks >>
  /\ UNCHANGED << cleanVars, detectVars >>

FlushSentence ==
  /\ pc = "sentence" /\ sentences # <<>> /\ Head(sentences) # <<>>
  /\ LET cleaned == clean_text(Head(sentences))
     IN  /\ ~Fits(current_chunk, cleaned, max_size)
         /\ cleaned_sentence' = cleaned
         /\ chunks' = Append(chunks, current_chunk)
         /\ current_chunk' = cleaned
  /\ sentences' = Tail(sentences)
  /\ UNCHANGED << pc, pages, max_size, page_no >>
  /\ UNCHANGED << cleanVars, detectVars >>

\* the inner loop is through: back to the outer one
EndPage ==
  /\ pc = "sentence" /\ sentences = <<>>
  /\ pc' = "page"
  /\ UNCHANGED << packVars, cleanVars, detectVars >>

\* Finish, were the last flush forgotten
FinishWithoutFlush ==
  /\ pc = "page" /\ page_no = Len(pages)
  /\ pc' = "done"
  /\ UNCHANGED << packVars, cleanVars, detectVars >>

\* the outer loop is through: if current_chunk: chunks.append(current_chunk)
Finish ==
  /\ pc = "page" /\ page_no = Len(pages)
  /\ chunks' = IF current_chunk # <<>> THEN Append(chunks, current_chunk) ELSE chunks
  /\ pc' = "done"
  /\ UNCHANGED << pages, max_size, page_no, sentences, cleaned_sentence, current_chunk >>
  /\ UNCHANGED << cleanVars, detectVars >>

NextPack ==
  NextPage \/ SkipSentence \/ AppendSentence \/ FlushSentence \/ EndPage \/ Finish

SpecPack == InitPack /\ [][NextPack]_vars

(***************************************************************************)
(* The claims                                                              *)
(***************************************************************************)
Occurs(h, s) ==
  \E i \in 1..(Len(s) - Len(h) + 1) : SubSeq(s, i, i + Len(h) - 1) = h

LineBreaks == { "LF", "CR" }
AsciiLetters == LowerChars \cup UpperChars
Cleaned == pc \in { "cleaned", "recleaned" }

\* the occurrence of h at position i of s starts a line and a line break follows it
HeaderLineAt(s, h, i) ==
  /\ SubSeq(s, i, i + Len(h) - 1) = h
  /\ (i = 1 \/ s[i - 1] \in LineBreaks)
  /\ i + Len(h) <= Len(s) /\ s[i + Len(h)] \in LineBreaks

\* C1: when clean_pdf_text is given a header h, and every occurrence of h in
\* the text (there is one) starts a line and is followed by a line break, as in
\* a document whose pages start with the line h, no occurrence of h is left
\* in the cleansed text.
C1_HeaderRemoved ==
  ( /\ Cleaned
    /\ remove_header # None
    /\ Occurs(remove_header, text)
    /\ \A i \in 1..(Len(text) - Len(remove_header) + 1) :
         SubSeq(text, i, i + Len(remove_header) - 1) = remove_header
           => HeaderLineAt(text, remove_header, i) )
  => ~Occurs(remove_header, cleaned_text)

\* C2: a Latin letter, a hyphen, line breaks and a Latin letter in sequence
\* come out as the two letters joined; two CJK characters separated only by a
\* line break come out adjacent.
C2_HyphenationRepaired ==
  Cleaned =>
    /\ \A i \in 1..Len(text) : \A j \in (i + 3)..Len(text) :
         ( /\ text[i] \in AsciiLetters /\ text[i + 1] = "-"
           /\ \A k \in (i + 2)..(j - 1) : text[k] \in LineBreaks
           /\ text[j] \in AsciiLetters )
         => Occurs(<< text[i], text[j] >>, cleaned_text)
    /\ \A i \in 1..(Len(text) - 2) :
         ( text[i] \in CjkChars /\ text[i + 1] \in LineBreaks /\ text[i + 2] \in CjkChars )
         => Occurs(<< text[i], text[i + 2] >>, cleaned_text)

\* C3: with no header and no footer to remove, two Latin letters separated in
\* the input only by a line break (LF or CR) are separated by exactly one space
\* in the output (letters: a line of digits may be an isolated page number,
\* which the artifact patterns delete).
C3_LineBreakBecomesSpace ==
  ( Cleaned /\ remove_header = None /\ remove_footer = None ) =>
    \A i \in 1..(Len(text) - 2) :
      ( text[i] \in AsciiLetters /\ text[i + 1] \in LineBreaks /\ text[i + 2] \in AsciiLetters )
      => Occurs(<< text[i], " ", text[i + 2] >>, cleaned_text)

\* C4: every character of the output of clean_pdf_text, on a text and on its
\* own output, belongs to the allowed character set.
C4_CharsetClosed ==
  /\ Cleaned => \A k \in 1..Len(cleaned_text) : cleaned_text[k] \in AllowedChars
  /\ pc = "recleaned" =>
       \A k \in 1..Len(recleaned_text) : recleaned_text[k] \in AllowedChars

\* a text with a bullet and a character outside the allowed set has been
\* cleansed to a text that is not empty
C4_Witness ==
  /\ pc = "cleaned" /\ cleaned_text # <<>>
  /\ \E k \in 1..Len(text) : text[k] \in BulletChars
  /\ \E k \in 1..Len(text) : text[k] \in Chars \ (AllowedChars \cup BulletChars)

\* C5: clean_pdf_text on its own output, with the same header and footer
\* arguments, gives that output again.
C5_Idempotent == pc = "recleaned" => recleaned_text = cleaned_text

(* detect_headers_footers *)
HasLines(k) == StrippedLines(pages_text[k]) # <<>>
FirstLine(k) == Head(StrippedLines(pages_text[k]))
LastLine(k) == StrippedLines(pages_text[k])[Len(StrippedLines(pages_text[k]))]
PagesWithLines == { k \in 1..Len(pages_text) : HasLines(k) }
FirstCount(l) == Cardinality({ k \in PagesWithLines : FirstLine(k) = l })
LastCount(l) == Cardinality({ k \in PagesWithLines : LastLine(k) = l })

\* ceil(t * n) for the fraction t
Ceil(t, n) == (t[1] * n + t[2] - 1) \div t[2]

Eligible(l) == Len(l) >= MinHeaderFooterLength /\ ~IsDigit(l)

\* l is the first line of more pages than any other first line, or of as many
\* and met first
LeadsFirst(l) ==
  \A k \in PagesWithLines :
    FirstLine(k) # l =>
      \/ FirstCount(FirstLine(k)) < FirstCount(l)
      \/ /\ FirstCount(FirstLine(k)) = FirstCount(l)
         /\ \E m \in PagesWithLines : m < k /\ FirstLine(m) = l

LeadsLast(l) ==
  \A k \in PagesWithLines :
    LastLine(k) # l =>
      \/ LastCount(LastLine(k)) < LastCount(l)
      \/ /\ LastCount(LastLine(k)) = LastCount(l)
         /\ \E m \in PagesWithLines : m < k /\ LastLine(m) = l

\* C6 as stated: for every page count N and threshold t, an eligible line that
\* is the first line of exactly ceil(t*N) pages is the header returned, and
\* one that is the first line of exactly ceil(t*N)-1 pages is not; the same
\* for last lines and the footer.
C6_ThresholdBoundary ==
  pc = "detected" =>
    \A k \in PagesWithLines :
      /\ ( Eligible(FirstLine(k))
           /\ FirstCount(FirstLine(k)) = Ceil(threshold, Len(pages_text)) )
         => header = FirstLine(k)
      /\ ( Eligible(FirstLine(k))
           /\ FirstCount(FirstLine(k)) = Ceil(threshold, Len(pages_text)) - 1 )
         => header # FirstLine(k)
      /\ ( Eligible(LastLine(k))
           /\ LastCount(LastLine(k)) = Ceil(threshold, Len(pages_text)) )
         => footer = LastLine(k)
      /\ ( Eligible(LastLine(k))
           /\ LastCount(LastLine(k)) = Ceil(threshold, Len(pages_text)) - 1 )
         => footer # LastLine(k)

\* C6 amended: for every page count N >= 3 and threshold t, an eligible line
\* that is the first line of exactly ceil(t*N) pages, and of more pages than
\* any other first line (or of as many, and met first), is the header
\* returned; one that is the first line of exactly ceil(t*N)-1 pages is not;
\* the same for last lines and the footer.
C6_ThresholdBoundaryAmended ==
  pc = "detected" =>
    \A k \in PagesWithLines :
      /\ ( Eligible(FirstLine(k)) /\ Len(pages_text) >= MinPages
           /\ LeadsFirst(FirstLine(k))
           /\ FirstCount(FirstLine(k)) = Ceil(threshold, Len(pages_text)) )
         => header = FirstLine(k)
      /\ ( Eligible(FirstLine(k))
           /\ FirstCount(FirstLine(k)) = Ceil(threshold, Len(pages_text)) - 1 )
         => header # FirstLine(k)
      /\ ( Eligible(LastLine(k)) /\ Len(pages_text) >= MinPages
           /\ LeadsLast(LastLine(k))
           /\ LastCount(LastLine(k)) = Ceil(threshold, Len(pages_text)) )
         => footer = LastLine(k)
      /\ ( Eligible(LastLine(k))
           /\ LastCount(LastLine(k)) = Ceil(threshold, Len(pages_text)) - 1 )
         => footer # LastLine(k)

\* of four pages at threshold 1/2, two start with the header that is returned
\* (ceil(4 / 2) = 2), and the most frequent last line, eligible and the last
\* line of one page, one fewer than needed, is not returned as the footer
C6_Witness ==
  /\ pc = "detected" /\ Len(pages_text) = 4 /\ threshold = << 1, 2 >>
  /\ header # None /\ FirstCount(header) = Ceil(threshold, Len(pages_text))
  /\ footer = None
  /\ \E k \in PagesWithLines :
       /\ Eligible(LastLine(k)) /\ LeadsLast(LastLine(k))
       /\ LastCount(LastLine(k)) = Ceil(threshold, Len(pages_text)) - 1

\* C7: detect_headers_footers returns (None, None) whenever fewer than 3 of
\* the pages have non-empty content.
C7_FewPagesNoCandidates ==
  ( pc = "detected"
    /\ Cardinality({ k \in 1..Len(pages_text) : Strip(pages_text[k]) # <<>> }) < 3 )
  => ( header = None /\ footer = None )

(* split_text_into_chunks *)
\* the cleansed sentences of a sequence of split pieces, concatenated
CleanedStream(pieces) ==
  Flatten([k \in 1..Len(pieces) |->
             IF pieces[k] = <<>> THEN <<>> ELSE clean_text(pieces[k])])

PageStream(page) == CleanedStream(SplitSentences(page))

\* the cleansed sentences of a sequence of pages, concatenated
PagesStream(ps) == Flatten([k \in 1..Len(ps) |-> PageStream(ps[k])])

\* the cleansed sentences of the pages, each alone
CleanedSentences ==
  UNION { { clean_text(p) : p \in Range(SplitSentences(pages[k])) \ { <<>> } } :
            k \in 1..Len(pages) }

\* a chunk made of more than one sentence
Packed(c) == c # <<>> /\ c \notin CleanedSentences

\* C8: each chunk is at most max_size bytes long, except a chunk that is one
\* cleansed sentence longer than max_size by itself; the chunk being built
\* exceeds max_size only when it is the sentence just cleansed.
C8_ChunkSize ==
  /\ \A k \in 1..Len(chunks) :
       ByteLen(chunks[k]) <= max_size \/ chunks[k] \in CleanedSentences
  /\ ByteLen(current_chunk) > max_size => current_chunk = cleaned_sentence

\* the packer is through, with a chunk longer than max_size and a chunk made
\* of several sentences
C8_Witness ==
  /\ pc = "done"
  /\ \E k \in 1..Len(chunks) : ByteLen(chunks[k]) > max_size
  /\ \E k \in 1..Len(chunks) : Packed(chunks[k])

\* what the loops have taken so far, cleansed and concatenated
TakenStream ==
  IF pc = "sentence"
    THEN LET pieces == SplitSentences(pages[page_no])
         IN  PagesStream(SubSeq(pages, 1, page_no - 1))
             \o CleanedStream(SubSeq(pieces, 1, Len(pieces) - Len(sentences)))
    ELSE PagesStream(SubSeq(pages, 1, page_no))

\* C9: the chunks in output order, followed until the last flush by the chunk
\* being built, concatenate to the cleansed sentences taken so far, in page
\* order and then sentence order; at the end, to those of all the pages.
C9_ChunksReproduceStream ==
  /\ Flatten(chunks) \o (IF pc = "done" THEN <<>> ELSE current_chunk) = TakenStream
  /\ pc = "done" => Flatten(chunks) = PagesStream(pages)

\* the packer is through, after an append (a chunk of several sentences) and
\* flushes (three chunks or more)
C9_Witness ==
  /\ pc = "done" /\ Len(chunks) >= 3
  /\ \E k \in 1..Len(chunks) : Packed(chunks[k])

\* C10: no chunk of the returned sequence is the empty string.
C10_NoEmptyChunk == \A k \in 1..Len(chunks) : chunks[k] # <<>>

\* C11: a bullet glyph followed in the input, with or without spaces, by a
\* Latin letter of the item text comes out as the unified marker, exactly one
\* space and that letter.
C11_BulletUnified ==
  Cleaned =>
    \A i \in 1..Len(text) : \A j \in (i + 1)..Len(text) :
      ( /\ text[i] \in BulletChars
        /\ \A k \in (i + 1)..(j - 1) : text[k] = " "
        /\ text[j] \in AsciiLetters )
      => Occurs(<< "BUL", " ", text[j] >>, cleaned_text)

=============================================================================
